---- MODULE Spec2Model ----
(***************************************************************************)
(* Model of obsidian-cli (src/src/main.rs): the vault scanner, the link    *)
(* resolver and the graph analyzer (tags, links, orphans, backlinks,       *)
(* statistics), and the frontmatter tag parser.                            *)
(*                                                                         *)
(* Strings are sequences of one-character strings, so that trimming,       *)
(* prefix/suffix tests, ".md" stripping and lexicographic sorting are      *)
(* computed character by character as the Rust code computes them.         *)
(***************************************************************************)
EXTENDS Integers, Sequences, FiniteSets, TLC

VARIABLES rootKind, vault, res, fmLines, fmOut

vars == <<rootKind, vault, res, fmLines, fmOut>>

(***************************************************************************)
(* Bounds of the model.                                                    *)
(***************************************************************************)
\* largest number of directory entries below the vault root
MaxFiles == 3
\* largest number of lines of a frontmatter block given to the parser
MaxLines == 3

(***************************************************************************)
(* String primitives (Rust str methods used by main.rs).                   *)
(***************************************************************************)
Range(s) == {s[i] : i \in 1..Len(s)}

\* str::starts_with
StartsWith(s, p) == Len(p) <= Len(s) /\ SubSeq(s, 1, Len(p)) = p

\* str::ends_with
EndsWith(s, p) == Len(p) <= Len(s) /\ SubSeq(s, Len(s) - Len(p) + 1, Len(s)) = p

\* str::strip_prefix(p).unwrap(), used only after starts_with(p)
StripPrefix(s, p) == SubSeq(s, Len(p) + 1, Len(s))

RECURSIVE TrimStartMatches(_, _)
TrimStartMatches(s, c) ==
    IF s # <<>> /\ Head(s) = c THEN TrimStartMatches(Tail(s), c) ELSE s

RECURSIVE TrimEndMatches(_, _)
TrimEndMatches(s, c) ==
    IF s # <<>> /\ s[Len(s)] = c
    THEN TrimEndMatches(SubSeq(s, 1, Len(s) - 1), c)
    ELSE s

\* str::trim_matches(c): every leading and every trailing c is removed
TrimMatches(s, c) == TrimEndMatches(TrimStartMatches(s, c), c)

\* str::trim(): surrounding whitespace removed
Trim(s) == TrimMatches(s, " ")

\* str::split(c): the pieces between the separators, empty pieces included
RECURSIVE Split(_, _)
Split(s, c) ==
    IF \A i \in 1..Len(s) : s[i] # c
    THEN <<s>>
    ELSE LET k == CHOOSE i \in 1..Len(s) :
                      s[i] = c /\ \A j \in 1..(i - 1) : s[j] # c
         IN <<SubSeq(s, 1, k - 1)>> \o Split(SubSeq(s, k + 1, Len(s)), c)

\* byte value of the characters that occur in the model's strings
Code(c) ==
    CASE c = " "  -> 32
      [] c = "\"" -> 34
      [] c = "'"  -> 39
      [] c = ","  -> 44
      [] c = "-"  -> 45
      [] c = "."  -> 46
      [] c = "/"  -> 47
      [] c = ":"  -> 58
      [] c = "N"  -> 78
      [] c = "X"  -> 88
      [] c = "Z"  -> 90
      [] c = "["  -> 91
      [] c = "]"  -> 93
      [] c = "a"  -> 97
      [] c = "d"  -> 100
      [] c = "g"  -> 103
      [] c = "h"  -> 104
      [] c = "m"  -> 109
      [] c = "s"  -> 115
      [] c = "t"  -> 116
      [] c = "v"  -> 118
      [] c = "w"  -> 119
      [] c = "x"  -> 120

\* Ord for String: lexicographic by bytes, a proper prefix is smaller
RECURSIVE StrLess(_, _)
StrLess(a, b) ==
    IF b = <<>> THEN FALSE
    ELSE IF a = <<>> THEN TRUE
    ELSE IF Head(a) # Head(b) THEN Code(Head(a)) < Code(Head(b))
    ELSE StrLess(Tail(a), Tail(b))

(***************************************************************************)
(* Tag Extractor: frontmatter part.                                        *)
(***************************************************************************)
TagsPrefix == <<"t", "a", "g", "s", ":">>
ListPrefix == <<"-", " ">>

\* .trim_matches('"').trim_matches('\'')
StripQuotes(s) == TrimMatches(TrimMatches(s, "\""), "'")

\* if !tag.is_empty() { tags.push(tag) }
PushNonEmpty(tags, tag) == IF tag # <<>> THEN Append(tags, tag) ELSE tags

\* the loop over tags_str.split(',') of the array format
RECURSIVE PushArrayTags(_, _)
PushArrayTags(tags, pieces) ==
    IF pieces = <<>> THEN tags
    ELSE PushArrayTags(PushNonEmpty(tags, StripQuotes(Trim(Head(pieces)))),
                       Tail(pieces))

\* the branch of a line that starts with "tags:", tags_part being the trimmed
\* text after the prefix
ParseTagsPart(tags, tags_part) ==
    IF StartsWith(tags_part, <<"[">>) /\ EndsWith(tags_part, <<"]">>)
    THEN PushArrayTags(tags, Split(SubSeq(tags_part, 2, Len(tags_part) - 1), ","))
    ELSE IF tags_part # <<>>
    THEN Append(tags, StripQuotes(tags_part))
    ELSE tags

\* the body of the loop over frontmatter.lines(), line being the trimmed line
ParseTrimmed(tags, line) ==
    IF StartsWith(line, TagsPrefix)
    THEN ParseTagsPart(tags, Trim(StripPrefix(line, TagsPrefix)))
    ELSE IF StartsWith(line, ListPrefix) /\ tags # <<>>
    THEN PushNonEmpty(tags, StripQuotes(Trim(StripPrefix(line, ListPrefix))))
    ELSE tags

ParseLine(tags, rawLine) == ParseTrimmed(tags, Trim(rawLine))

RECURSIVE ParseLines(_, _)
ParseLines(tags, lines) ==
    IF lines = <<>> THEN tags
    ELSE ParseLines(ParseLine(tags, Head(lines)), Tail(lines))

\* Option<Vec<String>>: None when no tag was found
OptionOfTags(tags) == [some |-> tags # <<>>, tags |-> tags]

parse_frontmatter_tags(frontmatter) == OptionOfTags(ParseLines(<<>>, frontmatter))

(***************************************************************************)
(* Note text.  A file's text is a frontmatter block (optional) followed by *)
(* whitespace-separated tokens: a wiki link [[text]] or [[text|alias]], an *)
(* inline tag #text, or a plain word.  No token holds whitespace, and no   *)
(* frontmatter line of the model holds "#" or "[[".                        *)
(***************************************************************************)
Link(t)      == [k |-> "link", text |-> t, alias |-> FALSE]
LinkAlias(t) == [k |-> "link", text |-> t, alias |-> TRUE]
InlineTag(t) == [k |-> "tag", text |-> t, alias |-> FALSE]
Word         == [k |-> "word", text |-> <<"x">>, alias |-> FALSE]

NoFm      == [has |-> FALSE, lines |-> <<>>]
Fm(lines) == [has |-> TRUE, lines |-> lines]

\* the text of the tokens of one kind, in order
RECURSIVE TextsOf(_, _)
TextsOf(body, k) ==
    IF body = <<>> THEN <<>>
    ELSE (IF Head(body).k = k THEN <<Head(body).text>> ELSE <<>>)
         \o TextsOf(Tail(body), k)

\* the captures of (?:^|\s)#([a-zA-Z0-9_/-]+) over the text
InlineTags(content) == TextsOf(content.body, "tag")

\* Option<String>: the text between the leading "---\n" and the next "\n---\n"
extract_frontmatter(content) ==
    [some |-> content.fm.has, lines |-> content.fm.lines]

\* if let Some(frontmatter) ... if let Some(fm_tags) ... tags.extend(fm_tags)
FrontmatterTags(frontmatter) ==
    IF frontmatter.some THEN parse_frontmatter_tags(frontmatter.lines).tags
    ELSE <<>>

extract_tags_from_file(content) ==
    InlineTags(content) \o FrontmatterTags(extract_frontmatter(content))

\* the first capture group of \[\[([^\]|]+)(?:\|[^\]]*)?\]\]: the alias is dropped
extract_links_from_file(content) == TextsOf(content.body, "link")

\* str::split_whitespace().count() of one line
CountWords(s) ==
    Cardinality({i \in 1..Len(s) : s[i] # " " /\ (i = 1 \/ s[i - 1] = " ")})

RECURSIVE SumWords(_)
SumWords(lines) ==
    IF lines = <<>> THEN 0 ELSE CountWords(Head(lines)) + SumWords(Tail(lines))

\* content.split_whitespace().count(): the two "---" lines count as words
WordCount(content) ==
    Len(content.body)
    + (IF content.fm.has THEN 2 + SumWords(content.fm.lines) ELSE 0)

(***************************************************************************)
(* Paths.                                                                  *)
(***************************************************************************)
MdExt == <<".", "m", "d">>

\* the path given on the command line
RootPath(kind) == IF kind = "file" THEN <<"v", ".", "m", "d">> ELSE <<"v">>

\* the entry's path as WalkDir yields it: the root joined with the relative path
FullPath(kind, rel) ==
    IF rel = <<>> THEN RootPath(kind) ELSE RootPath(kind) \o <<"/">> \o rel

\* the last position of c in s, 0 when there is none
RECURSIVE LastIndexOf(_, _)
LastIndexOf(s, c) ==
    IF s = <<>> THEN 0
    ELSE IF s[Len(s)] = c THEN Len(s)
    ELSE LastIndexOf(SubSeq(s, 1, Len(s) - 1), c)

\* Path::file_name: the last component
FileName(p) == SubSeq(p, LastIndexOf(p, "/") + 1, Len(p))

\* the extension of a file name: after the last ".", None when the name has
\* no "." or only begins with one
ExtensionOfName(name) ==
    IF name = <<".", ".">> \/ LastIndexOf(name, ".") <= 1
    THEN [some |-> FALSE, ext |-> <<>>]
    ELSE [some |-> TRUE, ext |-> SubSeq(name, LastIndexOf(name, ".") + 1, Len(name))]

\* Path::extension
Extension(p) == ExtensionOfName(FileName(p))

\* .map_or(false, |ext| ext == "md")
IsMd(x) == x.some /\ x.ext = <<"m", "d">>

\* path.is_file() && path.extension().map_or(false, |ext| ext == "md")
IsMarkdownFile(kind, e) ==
    e.kind = "file" /\ IsMd(Extension(FullPath(kind, e.path)))

normalize_path(note_path) ==
    IF EndsWith(note_path, MdExt)
    THEN SubSeq(note_path, 1, Len(note_path) - 3)
    ELSE note_path

(***************************************************************************)
(* Link Resolver.  all_notes is a HashSet: iter is the order in which this *)
(* instance of the set iterates, an enumeration of its elements.           *)
(***************************************************************************)
\* the loop of find_note_path over the notes left to visit
RECURSIVE FirstExactMatch(_, _)
FirstExactMatch(link_normalized, iter) ==
    IF iter = <<>> THEN [some |-> FALSE, path |-> <<>>]
    ELSE IF normalize_path(Head(iter)) = link_normalized
    THEN [some |-> TRUE, path |-> Head(iter)]
    ELSE FirstExactMatch(link_normalized, Tail(iter))

find_note_path_ExactOnly(link, iter) == FirstExactMatch(normalize_path(link), iter)

\* note_normalized == link_normalized
\*   || note_normalized.ends_with(&format!("/{}", link_normalized))
NoteMatches(note_normalized, link_normalized) ==
    \/ note_normalized = link_normalized
    \/ EndsWith(note_normalized, <<"/">> \o link_normalized)

\* the loop of find_note_path over the notes left to visit
RECURSIVE FirstMatch(_, _)
FirstMatch(link_normalized, iter) ==
    IF iter = <<>> THEN [some |-> FALSE, path |-> <<>>]
    ELSE IF NoteMatches(normalize_path(Head(iter)), link_normalized)
    THEN [some |-> TRUE, path |-> Head(iter)]
    ELSE FirstMatch(link_normalized, Tail(iter))

find_note_path(link, iter) == FirstMatch(normalize_path(link), iter)

(***************************************************************************)
(* Vault Scanner.  A vault is the sequence of directory entries below the  *)
(* root in the order WalkDir yields them (errors already filtered out); a  *)
(* missing root yields no entry, a root that is a file yields itself.      *)
(***************************************************************************)
\* HashSet iteration orders of a set
IterOrders(S) ==
    {f \in [1..Cardinality(S) -> S] : \A i, j \in DOMAIN f : i # j => f[i] # f[j]}

\* tag_counts.entry(tag).or_insert(0) += 1
Bump(m, t) == IF t \in DOMAIN m THEN [m EXCEPT ![t] = @ + 1] ELSE m @@ (t :> 1)

RECURSIVE BumpAll(_, _)
BumpAll(m, tags) ==
    IF tags = <<>> THEN m ELSE BumpAll(Bump(m, Head(tags)), Tail(tags))

RECURSIVE TagCounts(_, _, _)
TagCounts(kind, v, m) ==
    IF v = <<>> THEN m
    ELSE TagCounts(kind, Tail(v),
                   IF IsMarkdownFile(kind, Head(v)) /\ Head(v).readable
                   THEN BumpAll(m, extract_tags_from_file(Head(v).content))
                   ELSE m)

\* BTreeMap<String, usize>
collect_all_tags(kind, v) == TagCounts(kind, v, <<>>)

FileInfo(e) ==
    [path       |-> e.path,
     word_count |-> WordCount(e.content),
     link_count |-> Len(extract_links_from_file(e.content)),
     tag_count  |-> Len(extract_tags_from_file(e.content)),
     modified   |-> e.mtime]

RECURSIVE collect_all_files(_, _)
collect_all_files(kind, v) ==
    IF v = <<>> THEN <<>>
    ELSE (IF IsMarkdownFile(kind, Head(v)) /\ Head(v).readable
          THEN <<FileInfo(Head(v))>>
          ELSE <<>>)
         \o collect_all_files(kind, Tail(v))

\* first pass: every markdown file's relative path, read or not
FirstPass_TopLevelOnly(kind, v) ==
    {v[i].path : i \in {j \in 1..Len(v) :
                          /\ IsMarkdownFile(kind, v[j])
                          /\ "/" \notin Range(v[j].path)}}

FirstPass(kind, v) ==
    {v[i].path : i \in {j \in 1..Len(v) : IsMarkdownFile(kind, v[j])}}

\* one LinkInfo, with the raw text it came from
MakeLink(source, link, target_path) ==
    [raw  |-> link,
     info |-> [source |-> source,
               target |-> IF target_path.some THEN target_path.path ELSE link,
               exists |-> target_path.some]]

\* for link in links { ... all_links.push(..) }
RECURSIVE LinksOfFile(_, _, _)
LinksOfFile(source, links, iter) ==
    IF links = <<>> THEN <<>>
    ELSE <<MakeLink(source, Head(links), find_note_path(Head(links), iter))>>
         \o LinksOfFile(source, Tail(links), iter)

\* second pass: the links of every markdown file that can be read
RECURSIVE SecondPass(_, _, _)
SecondPass(kind, v, iter) ==
    IF v = <<>> THEN <<>>
    ELSE (IF IsMarkdownFile(kind, Head(v)) /\ Head(v).readable
          THEN LinksOfFile(Head(v).path,
                           extract_links_from_file(Head(v).content), iter)
          ELSE <<>>)
         \o SecondPass(kind, Tail(v), iter)

\* (Vec<LinkInfo>, HashSet<String>); raws[i] is the link text links[i] came from
LinksAndNotes(all, all_notes) ==
    [links     |-> [i \in 1..Len(all) |-> all[i].info],
     raws      |-> [i \in 1..Len(all) |-> all[i].raw],
     all_notes |-> all_notes]

collect_all_links(kind, v, iter) ==
    LinksAndNotes(SecondPass(kind, v, iter), FirstPass(kind, v))

(***************************************************************************)
(* Graph Analyzer.                                                         *)
(***************************************************************************)
\* has_outgoing: the sources of all links
HasOutgoing(links) == {links[i].source : i \in 1..Len(links)}

\* has_incoming: the targets of the links that exist
HasIncoming(links) ==
    {links[i].target : i \in {j \in 1..Len(links) : links[j].exists}}

\* all_notes.iter().filter(..).cloned().collect()
RECURSIVE FilterOrphans(_, _, _)
FilterOrphans(iter, has_outgoing, has_incoming) ==
    IF iter = <<>> THEN <<>>
    ELSE (IF Head(iter) \notin has_outgoing /\ Head(iter) \notin has_incoming
          THEN <<Head(iter)>>
          ELSE <<>>)
         \o FilterOrphans(Tail(iter), has_outgoing, has_incoming)

\* the orphans, with the link table and note set they were computed from
OrphansOf(c, orphans) ==
    [orphans |-> orphans, links |-> c.links, all_notes |-> c.all_notes]

OrphansOutgoingIfExists(c, iter) ==
    OrphansOf(c, FilterOrphans(iter,
                               {c.links[i].source :
                                   i \in {j \in 1..Len(c.links) : c.links[j].exists}},
                               HasIncoming(c.links)))

find_orphans_OutgoingIfExists(kind, v, iter) ==
    OrphansOutgoingIfExists(collect_all_links(kind, v, iter), iter)

OrphansIncomingIgnored(c, iter) ==
    OrphansOf(c, FilterOrphans(iter, HasOutgoing(c.links), {}))

find_orphans_IncomingIgnored(kind, v, iter) ==
    OrphansIncomingIgnored(collect_all_links(kind, v, iter), iter)

\* the part of find_orphans after the scan; iter is the iteration order of the
\* all_notes set the scan returned
OrphansOfScan(c, iter) ==
    OrphansOf(c, FilterOrphans(iter, HasOutgoing(c.links), HasIncoming(c.links)))

find_orphans(kind, v, iter) ==
    OrphansOfScan(collect_all_links(kind, v, iter), iter)

RECURSIVE find_notes_with_tag(_, _, _)
find_notes_with_tag(kind, v, target_tag) ==
    IF v = <<>> THEN <<>>
    ELSE (IF /\ IsMarkdownFile(kind, Head(v)) /\ Head(v).readable
             /\ target_tag \in Range(extract_tags_from_file(Head(v).content))
          THEN <<Head(v).path>>
          ELSE <<>>)
         \o find_notes_with_tag(kind, Tail(v), target_tag)

\* Vec::sort on strings: the sequence with x put in its place
RECURSIVE Insert(_, _)
Insert(x, s) ==
    IF s = <<>> THEN <<x>>
    ELSE IF StrLess(x, Head(s)) THEN <<x>> \o s
    ELSE <<Head(s)>> \o Insert(x, Tail(s))

RECURSIVE SortInto(_, _)
SortInto(sorted, s) ==
    IF s = <<>> THEN sorted ELSE SortInto(Insert(Head(s), sorted), Tail(s))

Sort(s) == SortInto(<<>>, s)

\* Vec::dedup: consecutive equal elements collapse to the first
RECURSIVE Dedup(_)
Dedup(s) ==
    IF Len(s) < 2 THEN s
    ELSE IF s[1] = s[2] THEN Dedup(Tail(s))
    ELSE <<s[1]>> \o Dedup(Tail(s))

\* the test of the loop of find_backlinks, on the normalized paths
TargetMatches(link_target_normalized, target_normalized) ==
    \/ link_target_normalized = target_normalized
    \/ EndsWith(link_target_normalized, <<"/">> \o target_normalized)
    \/ EndsWith(target_normalized, <<"/">> \o link_target_normalized)

\* for link in links { if .. { backlinks.push(link.source) } }
RECURSIVE PushBacklinks(_, _)
PushBacklinks(links, target_normalized) ==
    IF links = <<>> THEN <<>>
    ELSE (IF TargetMatches(normalize_path(Head(links).target), target_normalized)
          THEN <<Head(links).source>>
          ELSE <<>>)
         \o PushBacklinks(Tail(links), target_normalized)

\* the backlinks, with the link table they were computed from
BacklinksOf(c, backlinks) == [backlinks |-> backlinks, links |-> c.links]

BacklinksNoDedup(c, target_file) ==
    BacklinksOf(c, Sort(PushBacklinks(c.links, normalize_path(target_file))))

find_backlinks_NoDedup(kind, v, iter, target_file) ==
    BacklinksNoDedup(collect_all_links(kind, v, iter), target_file)

\* the part of find_backlinks after the scan
BacklinksOfScan(c, target_file) ==
    BacklinksOf(c, Dedup(Sort(PushBacklinks(c.links, normalize_path(target_file)))))

find_backlinks(kind, v, iter, target_file) ==
    BacklinksOfScan(collect_all_links(kind, v, iter), target_file)

\* the sum of the occurrence counts of a frequency table
RECURSIVE SumCounts(_, _)
SumCounts(m, keys) ==
    IF keys = {} THEN 0
    ELSE m[CHOOSE x \in keys : TRUE]
         + SumCounts(m, keys \ {CHOOSE x \in keys : TRUE})

\* links.iter().filter(|l| !l.exists).count()
CountBroken(links) == Cardinality({i \in 1..Len(links) : ~links[i].exists})

StatsOutputTagOccurrences(tag_counts, c, orphans) ==
    [total_notes    |-> Cardinality(c.all_notes),
     total_tags     |-> SumCounts(tag_counts, DOMAIN tag_counts),
     total_links    |-> Len(c.links),
     broken_links   |-> CountBroken(c.links),
     orphaned_notes |-> Len(orphans)]

calculate_stats_TagOccurrences(kind, v, iter1, iter2) ==
    StatsOutputTagOccurrences(collect_all_tags(kind, v),
                              collect_all_links(kind, v, iter1),
                              find_orphans(kind, v, iter2).orphans)

StatsOutput(tag_counts, c, orphans) ==
    [total_notes    |-> Cardinality(c.all_notes),
     total_tags     |-> Cardinality(DOMAIN tag_counts),
     total_links    |-> Len(c.links),
     broken_links   |-> CountBroken(c.links),
     orphaned_notes |-> Len(orphans)]

\* iter1: the note set of the collect_all_links call; iter2: the note set
\* inside the find_orphans call
calculate_stats(kind, v, iter1, iter2) ==
    StatsOutput(collect_all_tags(kind, v),
                collect_all_links(kind, v, iter1),
                find_orphans(kind, v, iter2).orphans)

(***************************************************************************)
(* The vaults and arguments the operations are run on.                     *)
(***************************************************************************)
P_N    == <<"N", ".", "m", "d">>
P_X    == <<"X", ".", "m", "d">>
P_aN   == <<"a", "/", "N", ".", "m", "d">>
P_Ntxt == <<"N", ".", "t", "x", "t">>

T_w == <<"w">>
T_h == <<"h">>

C_Empty == [fm |-> NoFm, body |-> <<>>]
\* [[N]] #w x
C_N     == [fm |-> NoFm, body |-> <<Link(<<"N">>), InlineTag(T_w), Word>>]
\* ---, tags: [w, h], ---, [[a/N]] [[a/N|x]]
C_aN    == [fm |-> Fm(<< <<"t","a","g","s",":"," ","[","w",","," ","h","]">> >>),
            body |-> <<Link(<<"a", "/", "N">>), LinkAlias(<<"a", "/", "N">>)>>]
\* [[Z]] #w #w
C_Z     == [fm |-> NoFm,
            body |-> <<Link(<<"Z">>), InlineTag(T_w), InlineTag(T_w)>>]
\* ---, tags: w, - h, ---, [[N.md]] [[Z]]
C_Mix   == [fm |-> Fm(<< <<"t","a","g","s",":"," ","w">>, <<"-"," ","h">> >>),
            body |-> <<Link(P_N), Link(<<"Z">>)>>]

ContentPool == {C_Empty, C_N, C_aN, C_Z, C_Mix}

File(path, readable, content) ==
    [path |-> path, kind |-> "file", readable |-> readable,
     content |-> content, mtime |-> "t"]

Dir(path) ==
    [path |-> path, kind |-> "dir", readable |-> FALSE,
     content |-> C_Empty, mtime |-> "t"]

\* what a path can hold: a file whose read fails, or a readable text
NoteStates(path) ==
    {File(path, FALSE, C_Empty)} \cup {File(path, TRUE, c) : c \in ContentPool}

\* the directory entries in the order of the walk, each with what it can be
EntryPool ==
    << NoteStates(P_N),
       NoteStates(P_X) \cup {Dir(P_X)},
       NoteStates(P_aN),
       {File(P_Ntxt, TRUE, C_N)} >>

\* the walks made of entries i.. of the pool, at most n of them
RECURSIVE WalksFrom(_, _)
WalksFrom(i, n) ==
    IF i > Len(EntryPool) \/ n = 0 THEN {<<>>}
    ELSE WalksFrom(i + 1, n)
         \cup {<<e>> \o rest : e \in EntryPool[i], rest \in WalksFrom(i + 1, n - 1)}

BacklinkQueries == {P_N, P_aN, P_X, <<"N">>}
TagQueries == {T_w, T_h}

NoResult == [op |-> "none", arg |-> <<>>, ok |-> TRUE, out |-> <<>>, loc |-> <<>>]
NoParse  == [done |-> FALSE, some |-> FALSE, tags |-> <<>>]

(***************************************************************************)
(* One run of the program per action: main dispatches to one operation.    *)
(* Every operation returns Ok(..): the only Err is one propagated by `?`   *)
(* from an inner call, and no inner call returns one.                      *)
(***************************************************************************)
Init ==
    /\ \/ rootKind = "dir" /\ vault \in WalksFrom(1, MaxFiles)
       \/ rootKind = "missing" /\ vault = <<>>
       \/ rootKind = "file" /\ vault \in {<<e>> : e \in NoteStates(<<>>)}
    /\ res = NoResult
    /\ fmLines = <<>>
    /\ fmOut = NoParse

Notes == FirstPass(rootKind, vault)

\* Ok((links, all_notes)), with the raw link texts kept beside it
LinksResult(c) ==
    [op |-> "collect_all_links", arg |-> <<>>, ok |-> TRUE,
     out |-> [links |-> c.links, all_notes |-> c.all_notes],
     loc |-> [raws |-> c.raws]]

\* Ok(orphans), with the link table and note set of the scan kept beside it
OrphansResult(r) ==
    [op |-> "find_orphans", arg |-> <<>>, ok |-> TRUE,
     out |-> r.orphans,
     loc |-> [links |-> r.links, all_notes |-> r.all_notes]]

\* Ok(backlinks), with the link table of the scan kept beside it
BacklinksResult(file, r) ==
    [op |-> "find_backlinks", arg |-> file, ok |-> TRUE,
     out |-> r.backlinks, loc |-> [links |-> r.links]]

CollectAllTags ==
    /\ res' = [op |-> "collect_all_tags", arg |-> <<>>, ok |-> TRUE,
               out |-> collect_all_tags(rootKind, vault), loc |-> <<>>]
    /\ UNCHANGED <<rootKind, vault, fmLines, fmOut>>

CollectAllFiles ==
    /\ res' = [op |-> "collect_all_files", arg |-> <<>>, ok |-> TRUE,
               out |-> collect_all_files(rootKind, vault), loc |-> <<>>]
    /\ UNCHANGED <<rootKind, vault, fmLines, fmOut>>

CollectAllLinks ==
    /\ \E iter \in IterOrders(Notes) :
         res' = LinksResult(collect_all_links(rootKind, vault, iter))
    /\ UNCHANGED <<rootKind, vault, fmLines, fmOut>>

FindOrphans ==
    /\ \E iter \in IterOrders(Notes) :
         res' = OrphansResult(find_orphans(rootKind, vault, iter))
    /\ UNCHANGED <<rootKind, vault, fmLines, fmOut>>

FindNotesWithTag ==
    /\ \E tag \in TagQueries :
         res' = [op |-> "find_notes_with_tag", arg |-> tag, ok |-> TRUE,
                 out |-> find_notes_with_tag(rootKind, vault, tag), loc |-> <<>>]
    /\ UNCHANGED <<rootKind, vault, fmLines, fmOut>>

FindBacklinks ==
    /\ \E iter \in IterOrders(Notes), file \in BacklinkQueries :
         res' = BacklinksResult(file, find_backlinks(rootKind, vault, iter, file))
    /\ UNCHANGED <<rootKind, vault, fmLines, fmOut>>

CalculateStats ==
    /\ \E iter1, iter2 \in IterOrders(Notes) :
         res' = [op |-> "calculate_stats", arg |-> <<>>, ok |-> TRUE,
                 out |-> calculate_stats(rootKind, vault, iter1, iter2),
                 loc |-> <<>>]
    /\ UNCHANGED <<rootKind, vault, fmLines, fmOut>>

Next ==
    \/ CollectAllTags
    \/ CollectAllFiles
    \/ CollectAllLinks
    \/ FindOrphans
    \/ FindNotesWithTag
    \/ FindBacklinks
    \/ CalculateStats

Spec == Init /\ [][Next]_vars

(***************************************************************************)
(* The frontmatter parser on its own: parse_frontmatter_tags applied to a  *)
(* block of up to MaxLines lines.                                          *)
(***************************************************************************)
LinePool ==
    { <<"t","a","g","s",":">>,
      <<"t","a","g","s",":"," ","[","a",","," ","h","]">>,
      <<"t","a","g","s",":"," ","w">>,
      <<"-"," ","h">>,
      <<" "," ","-"," ","\"","a","\"">>,
      <<"-"," ">>,
      <<"a",":"," ","x">> }

SeqsUpTo(S, n) == UNION {[1..k -> S] : k \in 0..n}

InitTags ==
    /\ rootKind = "missing"
    /\ vault = <<>>
    /\ res = NoResult
    /\ fmLines \in SeqsUpTo(LinePool, MaxLines)
    /\ fmOut = NoParse

ParseResult(r) == [done |-> TRUE, some |-> r.some, tags |-> r.tags]

ParseFrontmatterTags ==
    /\ ~fmOut.done
    /\ fmOut' = ParseResult(parse_frontmatter_tags(fmLines))
    /\ UNCHANGED <<rootKind, vault, res, fmLines>>

NextTags == ParseFrontmatterTags

SpecTags == InitTags /\ [][NextTags]_vars

(***************************************************************************)
(* Properties.                                                             *)
(***************************************************************************)
\* the markdown files of the vault whose read fails / succeeds
UnreadableNotes ==
    {vault[i].path : i \in {j \in 1..Len(vault) :
        IsMarkdownFile(rootKind, vault[j]) /\ ~vault[j].readable}}

ReadableNotes ==
    {vault[i].path : i \in {j \in 1..Len(vault) :
        IsMarkdownFile(rootKind, vault[j]) /\ vault[j].readable}}

\* the link-resolution match of the claims: norm(n) = norm(L), or norm(n) ends
\* with "/" followed by norm(L)
Resolves(n, L) ==
    \/ normalize_path(n) = normalize_path(L)
    \/ EndsWith(normalize_path(n), <<"/">> \o normalize_path(L))

\* C1: a markdown file whose content cannot be read contributes nothing to the
\* result of any operation: it is no element of the note set, no link source,
\* no resolved link target, no orphan, no tag-search hit, no backlink source,
\* no file entry, and it is not counted in total_notes.
C1_UnreadableExcluded ==
    /\ \A U \in UnreadableNotes :
        /\ res.op = "collect_all_links" =>
              /\ U \notin res.out.all_notes
              /\ \A i \in 1..Len(res.out.links) :
                    /\ res.out.links[i].source # U
                    /\ ~(res.out.links[i].exists /\ res.out.links[i].target = U)
        /\ res.op = "find_orphans" => U \notin Range(res.out)
        /\ res.op = "find_notes_with_tag" => U \notin Range(res.out)
        /\ res.op = "find_backlinks" => U \notin Range(res.out)
        /\ res.op = "collect_all_files" =>
              \A i \in 1..Len(res.out) : res.out[i].path # U
    /\ res.op = "calculate_stats" =>
          res.out.total_notes = Cardinality(ReadableNotes)

\* C2: when the vault root does not exist or is not a directory, every
\* collection function returns a failure, not a successful result.
C2_BadRootFails ==
    (rootKind # "dir" /\ res.op # "none") => ~res.ok

\* C3: every collection function is deterministic: two runs of the same
\* function with the same argument on the unchanged vault give the same result,
\* the order of the sequences and the resolved targets included.
C3_Deterministic ==
    [][(res.op # "none" /\ res'.op = res.op /\ res'.arg = res.arg)
          => res'.out = res.out]_vars

\* C4: for the link made from raw text L over the note set N, exists holds iff
\* some note of N resolves L; then the target is such a note, and otherwise the
\* target is L unchanged.
C4_LinkResolution ==
    res.op = "collect_all_links" =>
        \A i \in 1..Len(res.out.links) :
            LET l == res.out.links[i]
                L == res.loc.raws[i]
                M == {n \in res.out.all_notes : Resolves(n, L)}
            IN /\ l.exists <=> M # {}
               /\ l.exists => l.target \in M
               /\ ~l.exists => l.target = L

\* a link resolved by the suffix rule to one of two candidates, and a
\* dangling link, in one link table
C4_Witness ==
    /\ res.op = "collect_all_links"
    /\ \E i, j \in 1..Len(res.out.links) :
          /\ res.out.links[i].exists
          /\ normalize_path(res.out.links[i].target) # normalize_path(res.loc.raws[i])
          /\ Cardinality({n \in res.out.all_notes : Resolves(n, res.loc.raws[i])}) > 1
          /\ ~res.out.links[j].exists

\* C5 as stated: every note with no resolved incoming link, and whose outgoing
\* links (if any) are all dangling, is in the orphan list (stated for the
\* vaults where every file can be read).
C5_DanglingOnlyIsOrphan ==
    (res.op = "find_orphans" /\ UnreadableNotes = {}) =>
        \A n \in res.loc.all_notes :
            (/\ \A i \in 1..Len(res.loc.links) :
                    ~(res.loc.links[i].exists /\ res.loc.links[i].target = n)
             /\ \A i \in 1..Len(res.loc.links) :
                    res.loc.links[i].source = n => ~res.loc.links[i].exists)
            => n \in Range(res.out)

\* C5 amended: the orphan list holds exactly the notes that are the source of no
\* link at all (resolved or dangling) and the target of no resolved link, each
\* once.
C5_OrphansNoLinksAtAll ==
    res.op = "find_orphans" =>
        /\ Range(res.out) =
              {n \in res.loc.all_notes :
                  /\ \A i \in 1..Len(res.loc.links) : res.loc.links[i].source # n
                  /\ \A i \in 1..Len(res.loc.links) :
                        ~(res.loc.links[i].exists /\ res.loc.links[i].target = n)}
        /\ Cardinality(Range(res.out)) = Len(res.out)

\* a note with only dangling outgoing links and no incoming link is left out
\* of a non-empty orphan list
C5_Witness ==
    /\ res.op = "find_orphans"
    /\ res.out # <<>>
    /\ \E n \in res.loc.all_notes :
          /\ n \notin Range(res.out)
          /\ \E i \in 1..Len(res.loc.links) : res.loc.links[i].source = n
          /\ \A i \in 1..Len(res.loc.links) :
                /\ res.loc.links[i].source = n => ~res.loc.links[i].exists
                /\ ~(res.loc.links[i].exists /\ res.loc.links[i].target = n)

\* C6: find_backlinks(root, q) returns exactly the sources of the links whose
\* reported target t has norm(t) = norm(q), or norm(t) ending with "/" norm(q),
\* or norm(q) ending with "/" norm(t); in strictly ascending order.
C6_Backlinks ==
    res.op = "find_backlinks" =>
        /\ Range(res.out) =
              {res.loc.links[i].source : i \in {j \in 1..Len(res.loc.links) :
                  LET t == normalize_path(res.loc.links[j].target)
                      q == normalize_path(res.arg)
                  IN \/ t = q
                     \/ EndsWith(t, <<"/">> \o q)
                     \/ EndsWith(q, <<"/">> \o t)}}
        /\ \A i \in 1..(Len(res.out) - 1) : StrLess(res.out[i], res.out[i + 1])

\* two sources are reported, one of which links to the target twice
C6_Witness ==
    /\ res.op = "find_backlinks"
    /\ Len(res.out) >= 2
    /\ \E i, j \in 1..Len(res.loc.links) :
          /\ i # j
          /\ res.loc.links[i] = res.loc.links[j]
          /\ res.loc.links[i].source \in Range(res.out)
          /\ normalize_path(res.loc.links[i].target) = normalize_path(res.arg)

\* C7: the statistics satisfy broken_links <= total_links, orphaned_notes <=
\* total_notes, and total_tags is the number of distinct tags of the vault.
C7_StatsInvariants ==
    res.op = "calculate_stats" =>
        /\ res.out.broken_links <= res.out.total_links
        /\ res.out.orphaned_notes <= res.out.total_notes
        /\ res.out.total_tags =
              Cardinality(UNION {Range(extract_tags_from_file(vault[i].content)) :
                  i \in {j \in 1..Len(vault) :
                      IsMarkdownFile(rootKind, vault[j]) /\ vault[j].readable}})

\* statistics of a vault with a broken link, an orphan, and a tag that occurs
\* more than once
C7_Witness ==
    /\ res.op = "calculate_stats"
    /\ res.out.broken_links > 0
    /\ res.out.orphaned_notes > 0
    /\ res.out.total_tags > 0
    /\ res.out.total_tags < SumCounts(collect_all_tags(rootKind, vault),
                                      DOMAIN collect_all_tags(rootKind, vault))

\* C8: in the pair (links, notes) of collect_all_links every link's source is
\* an element of notes.
C8_SourcesAreNotes ==
    res.op = "collect_all_links" =>
        \A i \in 1..Len(res.out.links) :
            res.out.links[i].source \in res.out.all_notes

\* a link table with a link from a note in a subdirectory, over a vault that
\* also holds a file that cannot be read
C8_Witness ==
    /\ res.op = "collect_all_links"
    /\ UnreadableNotes # {}
    /\ \E i \in 1..Len(res.out.links) : "/" \in Range(res.out.links[i].source)

\* C10 as stated: after find_orphans reports n, find_backlinks asked for n's
\* full relative path on the unchanged vault returns the empty list.  Stated
\* for the vaults where every file can be read and both runs computed the same
\* link table, so that neither unreadable files nor the iteration order of
\* the note set is involved.
C10_OrphanHasNoBacklinks ==
    [][(/\ res.op = "find_orphans" /\ res'.op = "find_backlinks"
        /\ res'.arg \in Range(res.out)
        /\ UnreadableNotes = {}
        /\ res'.loc.links = res.loc.links)
          => res'.out = <<>>]_vars

\* C10 amended: no note of the orphan list is the reported target of a
\* resolved link of the link table the list was computed from.
C10_OrphanNotResolvedTarget ==
    res.op = "find_orphans" =>
        \A k \in 1..Len(res.out) : \A i \in 1..Len(res.loc.links) :
            res.loc.links[i].exists => res.loc.links[i].target # res.out[k]

\* an orphan is reported next to a resolved link whose target is
\* suffix-related to the orphan's path
C10_Witness ==
    /\ res.op = "find_orphans"
    /\ \E k \in 1..Len(res.out) : \E i \in 1..Len(res.loc.links) :
          /\ res.loc.links[i].exists
          /\ res.loc.links[i].target # res.out[k]
          /\ \/ EndsWith(normalize_path(res.loc.links[i].target),
                         <<"/">> \o normalize_path(res.out[k]))
             \/ EndsWith(normalize_path(res.out[k]),
                         <<"/">> \o normalize_path(res.loc.links[i].target))

\* C9 as stated: after a line recognized as the tags: line, every later line
\* that starts with "- " adds its trimmed, quote-stripped, non-empty text as a
\* tag; a "- " line met while no tag has been found adds nothing.
ItemText(rawLine) == StripQuotes(Trim(StripPrefix(Trim(rawLine), ListPrefix)))

C9_ListItemsAfterTagsLine ==
    fmOut.done =>
        /\ \A i, j \in 1..Len(fmLines) :
              (/\ i < j
               /\ StartsWith(Trim(fmLines[i]), TagsPrefix)
               /\ StartsWith(Trim(fmLines[j]), ListPrefix)
               /\ ItemText(fmLines[j]) # <<>>)
              => ItemText(fmLines[j]) \in Range(fmOut.tags)
        /\ \A j \in 1..Len(fmLines) :
              (/\ StartsWith(Trim(fmLines[j]), ListPrefix)
               /\ ParseLines(<<>>, SubSeq(fmLines, 1, j - 1)) = <<>>)
              => ParseLines(<<>>, SubSeq(fmLines, 1, j)) = <<>>

====
